---- MODULE Spec2Model ----
(***************************************************************************)
(* Model of the arithmetic expression evaluator of blis                    *)
(* (src/src/parser.rs): the tokenizer (common::get_token) and the          *)
(* two-stack evaluator (arithmetic_parser::Parser::calculate).             *)
(*                                                                         *)
(* A string is a sequence of characters; a character is a one-element      *)
(* TLA+ string, except "U+00E9" (e with acute accent), which stands for    *)
(* any character whose UTF-8 encoding is two bytes long.                   *)
(*                                                                         *)
(* An f64 is modelled as a signed fraction [s, n, d]: s is the sign bit    *)
(* (1 or -1), n/d the magnitude in lowest terms; d = 0 with n = 1 is an    *)
(* infinity and n = d = 0 is NaN.  Signed zeros are kept.  The rounding of *)
(* binary64 is abstracted: results are exact.                              *)
(***************************************************************************)
EXTENDS Integers, Sequences, FiniteSets, TLC

\* ---------------------------------------------------------------- bounds
MaxTokens == 7
MaxLen == 3
MaxStrayLen == 6
MaxCalls == 2
MaxSigned == 6
MaxSignLen == 4
MaxWsLen == 3

\* ------------------------------------------------------------ characters
DigitChars == <<"0", "1", "2", "3", "4", "5", "6", "7", "8", "9">>

is_digit(c) == \E i \in 1..10 : DigitChars[i] = c

to_digit(c) == (CHOOSE i \in 1..10 : DigitChars[i] = c) - 1

is_whitespace(c) == c = " "

len_utf8(c) == IF c = "U+00E9" THEN 2 ELSE 1

RECURSIVE len(_)
len(str) == IF str = <<>> THEN 0 ELSE len_utf8(Head(str)) + len(Tail(str))

\* ------------------------------------------------------------------- f64
RECURSIVE GCD(_, _)
GCD(a, b) == IF b = 0 THEN a ELSE GCD(b, a % b)

NaN == [s |-> 1, n |-> 0, d |-> 0]

Zero == [s |-> 1, n |-> 0, d |-> 1]

F64(s, n, d) ==
    IF n = 0 /\ d = 0 THEN NaN
    ELSE IF d = 0 THEN [s |-> s, n |-> 1, d |-> 0]
    ELSE IF n = 0 THEN [s |-> s, n |-> 0, d |-> 1]
    ELSE LET g == GCD(n, d) IN [s |-> s, n |-> n \div g, d |-> d \div g]

IsNaN(x) == x.n = 0 /\ x.d = 0

IsInf(x) == x.n = 1 /\ x.d = 0

Neg(x) == IF IsNaN(x) THEN NaN ELSE [x EXCEPT !.s = -x.s]

Abs(i) == IF i < 0 THEN -i ELSE i

f64_add(x, y) ==
    IF IsNaN(x) \/ IsNaN(y) THEN NaN
    ELSE IF IsInf(x) /\ IsInf(y) THEN (IF x.s = y.s THEN x ELSE NaN)
    ELSE IF IsInf(x) THEN x
    ELSE IF IsInf(y) THEN y
    ELSE LET t == x.s * x.n * y.d + y.s * y.n * x.d IN
         IF t = 0
         THEN F64(IF x.n = 0 /\ y.n = 0 /\ x.s = -1 /\ y.s = -1 THEN -1 ELSE 1, 0, 1)
         ELSE F64(IF t < 0 THEN -1 ELSE 1, Abs(t), x.d * y.d)

f64_sub(x, y) == f64_add(x, Neg(y))

f64_mul(x, y) == F64(x.s * y.s, x.n * y.n, x.d * y.d)

f64_div(x, y) == F64(x.s * y.s, x.n * y.d, x.d * y.n)

\* str::parse::<f64> on a literal made of digits and '.', starting with a
\* digit: an error exactly when it holds more than one '.'.
RECURSIVE CountDots(_)
CountDots(str) ==
    IF str = <<>> THEN 0
    ELSE (IF Head(str) = "." THEN 1 ELSE 0) + CountDots(Tail(str))

RECURSIVE Mantissa(_, _)
Mantissa(str, acc) ==
    IF str = <<>> THEN acc
    ELSE IF Head(str) = "." THEN Mantissa(Tail(str), acc)
    ELSE Mantissa(Tail(str), 10 * acc + to_digit(Head(str)))

RECURSIVE Scale(_, _)
Scale(str, seen) ==
    IF str = <<>> THEN 1
    ELSE IF Head(str) = "." THEN Scale(Tail(str), TRUE)
    ELSE (IF seen THEN 10 ELSE 1) * Scale(Tail(str), seen)

parse_ok(str) == CountDots(str) <= 1

parse(str) == F64(1, Mantissa(str, 0), Scale(str, FALSE))

\* ---------------------------------------------------------------- common
\* remove_whitespace that retains every character
remove_whitespace_kept(str) == str

\* remove_whitespace that strips only what precedes the first other
\* character
RECURSIVE remove_whitespace_leading(_)
remove_whitespace_leading(str) ==
    IF str = <<>> THEN <<>>
    ELSE IF is_whitespace(Head(str)) THEN remove_whitespace_leading(Tail(str))
    ELSE str

RECURSIVE remove_whitespace(_)
remove_whitespace(str) ==
    IF str = <<>> THEN <<>>
    ELSE IF is_whitespace(Head(str)) THEN remove_whitespace(Tail(str))
    ELSE <<Head(str)>> \o remove_whitespace(Tail(str))

EmptyToken == [value |-> <<>>, token_type |-> "Empty"]

\* chars().nth(pos).unwrap() panics when pos is not a character index;
\* positions are 0-based in the code, sequences 1-based here.
nth_is_none(expression, pos) == pos >= Len(expression)

RECURSIVE get_number(_, _, _)
get_number(expression, pos, num) ==
    IF ~(pos < len(expression)) THEN [panic |-> FALSE, value |-> num, pos |-> pos]
    ELSE IF nth_is_none(expression, pos) THEN [panic |-> TRUE, value |-> num, pos |-> pos]
    ELSE IF is_digit(expression[pos + 1]) \/ expression[pos + 1] = "."
         THEN get_number(expression, pos + 1, Append(num, expression[pos + 1]))
         ELSE [panic |-> FALSE, value |-> num, pos |-> pos]

\* get_operation that leaves the position where it was
get_operation_stuck(expression, pos) ==
    [panic |-> FALSE, value |-> <<expression[pos + 1]>>, pos |-> pos]

get_operation(expression, pos) ==
    [panic |-> FALSE, value |-> <<expression[pos + 1]>>, pos |-> pos + 1]

get_token(expression, pos) ==
    IF pos = len(expression)
    THEN [panic |-> FALSE, token |-> EmptyToken, pos |-> pos]
    ELSE IF nth_is_none(expression, pos)
    THEN [panic |-> TRUE, token |-> EmptyToken, pos |-> pos]
    ELSE IF is_digit(expression[pos + 1])
    THEN LET r == get_number(expression, pos, <<>>) IN
         [panic |-> r.panic,
          token |-> [value |-> r.value, token_type |-> "Number"],
          pos |-> r.pos]
    ELSE LET r == get_operation(expression, pos) IN
         [panic |-> FALSE,
          token |-> [value |-> r.value, token_type |-> "Operation"],
          pos |-> r.pos]

\* get_priority with the two ranks exchanged
get_priority_swapped(operation) ==
    IF operation = <<"(">> THEN [ok |-> TRUE, v |-> -1]
    ELSE IF operation = <<"*">> \/ operation = <<"/">> THEN [ok |-> TRUE, v |-> 2]
    ELSE IF operation = <<"+">> \/ operation = <<"-">> THEN [ok |-> TRUE, v |-> 1]
    ELSE [ok |-> FALSE, v |-> 0]

\* Result<i8, ParseError>: ok = FALSE stands for Err(InvalidOperation).
get_priority(operation) ==
    IF operation = <<"(">> THEN [ok |-> TRUE, v |-> -1]
    ELSE IF operation = <<"*">> \/ operation = <<"/">> THEN [ok |-> TRUE, v |-> 1]
    ELSE IF operation = <<"+">> \/ operation = <<"-">> THEN [ok |-> TRUE, v |-> 2]
    ELSE [ok |-> FALSE, v |-> 0]

\* ----------------------------------------------------- arithmetic_parser
top(stack) == stack[Len(stack)]

pop(stack) == IF stack = <<>> THEN <<>> ELSE SubSeq(stack, 1, Len(stack) - 1)

\* clear that leaves the vector as it is
clear_kept(stack) == stack

clear(stack) == <<>>

\* can_pop_operation without the test that shields the open parenthesis
can_pop_operation_noparen(ops, operation) ==
    IF ops = <<>> THEN FALSE
    ELSE LET prior1 == get_priority(operation)
             prior2 == get_priority(top(ops))
         IN IF prior1.ok
            THEN IF prior2.ok
                 THEN prior1.v >= prior2.v
                 ELSE FALSE
            ELSE FALSE

\* can_pop_operation that pops only on a strictly higher priority
can_pop_operation_strict(ops, operation) ==
    IF ops = <<>> THEN FALSE
    ELSE LET prior1 == get_priority(operation)
             prior2 == get_priority(top(ops))
         IN IF prior1.ok
            THEN IF prior2.ok
                 THEN prior1.v >= 0 /\ prior2.v >= 0 /\ prior1.v > prior2.v
                 ELSE FALSE
            ELSE FALSE

can_pop_operation(ops, operation) ==
    IF ops = <<>> THEN FALSE
    ELSE LET prior1 == get_priority(operation)
             prior2 == get_priority(top(ops))
         IN IF prior1.ok
            THEN IF prior2.ok
                 THEN prior1.v >= 0 /\ prior2.v >= 0 /\ prior1.v >= prior2.v
                 ELSE FALSE
            ELSE FALSE

\* pop_number that yields 0 from an empty stack
pop_number_default(nums) ==
    IF nums # <<>>
    THEN [ok |-> TRUE, err |-> "None", x |-> top(nums), numbers |-> pop(nums)]
    ELSE [ok |-> TRUE, err |-> "None", x |-> Zero, numbers |-> nums]

\* Result<f64, ParseError> together with the stack it leaves.
pop_number(nums) ==
    IF nums # <<>>
    THEN [ok |-> TRUE, err |-> "None", x |-> top(nums), numbers |-> pop(nums)]
    ELSE [ok |-> FALSE, err |-> "OperationBalance", x |-> Zero, numbers |-> nums]

\* the computation of pop_operation without the push of a product
apply_dropped(operation, b, a, nums) ==
    IF operation = <<"+">> THEN Append(nums, f64_add(b, a))
    ELSE IF operation = <<"-">> THEN Append(nums, f64_sub(b, a))
    ELSE IF operation = <<"/">> THEN Append(nums, f64_div(b, a))
    ELSE nums

apply(operation, b, a, nums) ==
    IF operation = <<"+">> THEN Append(nums, f64_add(b, a))
    ELSE IF operation = <<"-">> THEN Append(nums, f64_sub(b, a))
    ELSE IF operation = <<"*">> THEN Append(nums, f64_mul(b, a))
    ELSE IF operation = <<"/">> THEN Append(nums, f64_div(b, a))
    ELSE nums

\* pop_operation whose match rejects an unknown operator instead of
\* ignoring it
pop_operation_invalid(nums, ops) ==
    LET ra == pop_number(nums) IN
    IF ~ra.ok
    THEN [ok |-> FALSE, err |-> "OperationBalance", numbers |-> ra.numbers, operations |-> ops]
    ELSE LET rb == pop_number(ra.numbers) IN
    IF ~rb.ok
    THEN [ok |-> FALSE, err |-> "OperationBalance", numbers |-> rb.numbers, operations |-> ops]
    ELSE IF ops = <<>>
    THEN [ok |-> FALSE, err |-> "PopFailure", numbers |-> rb.numbers, operations |-> ops]
    ELSE IF ~get_priority(top(ops)).ok
    THEN [ok |-> FALSE, err |-> "InvalidOperation", numbers |-> rb.numbers, operations |-> pop(ops)]
    ELSE [ok |-> TRUE, err |-> "None",
          numbers |-> apply(top(ops), rb.x, ra.x, rb.numbers),
          operations |-> pop(ops)]

\* pop_operation that tests only the first operand for underflow and
\* takes 0 for a missing second one
pop_operation_unary(nums, ops) ==
    LET ra == pop_number(nums) IN
    IF ~ra.ok
    THEN [ok |-> FALSE, err |-> "OperationBalance", numbers |-> ra.numbers, operations |-> ops]
    ELSE LET rb == pop_number_default(ra.numbers) IN
    IF ops = <<>>
    THEN [ok |-> FALSE, err |-> "PopFailure", numbers |-> rb.numbers, operations |-> ops]
    ELSE [ok |-> TRUE, err |-> "None",
          numbers |-> apply(top(ops), rb.x, ra.x, rb.numbers),
          operations |-> pop(ops)]

\* Result<(), ParseError> together with the two stacks it leaves.
pop_operation(nums, ops) ==
    LET ra == pop_number(nums) IN
    IF ~ra.ok
    THEN [ok |-> FALSE, err |-> "OperationBalance", numbers |-> ra.numbers, operations |-> ops]
    ELSE LET rb == pop_number(ra.numbers) IN
    IF ~rb.ok
    THEN [ok |-> FALSE, err |-> "OperationBalance", numbers |-> rb.numbers, operations |-> ops]
    ELSE IF ops = <<>>
    THEN [ok |-> FALSE, err |-> "PopFailure", numbers |-> rb.numbers, operations |-> ops]
    ELSE [ok |-> TRUE, err |-> "None",
          numbers |-> apply(top(ops), rb.x, ra.x, rb.numbers),
          operations |-> pop(ops)]

\* ---------------------------------------------------------------- inputs
Digits == {"0", "2", "3"}

BinOps == {"+", "-", "*", "/"}

Chars == Digits \cup BinOps \cup {"(", ")", " ", "$", ".", "U+00E9"}

StrayChars == {"2", ".", "$", "(", ")"}

Strings(alphabet, n) == UNION {[1..k -> alphabet] : k \in 0..n}

\* E := T (binop T)*,  T := digit | '(' E ')', by exact number of tokens.
RECURSIVE Expr(_)
Term(n) ==
    IF n = 1 THEN {<<c>> : c \in Digits}
    ELSE IF n >= 3 THEN {<<"(">> \o e \o <<")">> : e \in Expr(n - 2)}
    ELSE {}

Expr(n) ==
    IF n < 1 THEN {}
    ELSE Term(n) \cup
         UNION {{e \o <<o>> \o t : e \in Expr(k), o \in BinOps, t \in Term(n - k - 1)} :
                k \in 1..(n - 2)}

WellFormed == UNION {Expr(n) : n \in 1..MaxTokens}

TrailingOperator == {e \o <<o>> : e \in UNION {Expr(n) : n \in 1..(MaxTokens - 2)}, o \in BinOps}

Inputs == WellFormed \cup TrailingOperator \cup Strings(Chars, MaxLen)

StrayInputs == Strings(StrayChars, MaxStrayLen)

\* E := [sign] U,  U := T (binop T)*,  T := digit | '(' E ')': a sign is
\* allowed only at the very start of an E.
RECURSIVE Unsigned(_)
Signed(n) ==
    Unsigned(n) \cup {<<g>> \o e : g \in {"+", "-"}, e \in Unsigned(n - 1)}

SignedTerm(n) ==
    IF n = 1 THEN {<<c>> : c \in Digits}
    ELSE IF n >= 3 THEN {<<"(">> \o e \o <<")">> : e \in Signed(n - 2)}
    ELSE {}

Unsigned(n) ==
    IF n < 1 THEN {}
    ELSE SignedTerm(n) \cup
         UNION {{e \o <<o>> \o t : e \in Unsigned(k), o \in BinOps, t \in SignedTerm(n - k - 1)} :
                k \in 1..(n - 2)}

SignedWellFormed == UNION {Signed(n) : n \in 1..MaxSigned}

\* the unary examples of the specification: -5 and 4+(-1)*(2+2)
Examples ==
    {<<"-", "5">>,
     <<"4", "+", "(", "-", "1", ")", "*", "(", "2", "+", "2", ")">>}

SignChars == {"2", "-", "*", "(", ")"}

WsChars == {"2", "3", "+", "*", "(", ")", " "}

WsInputs == Strings(WsChars, MaxWsLen)

FairChars == {"2", "+", "(", ")", ".", "U+00E9"}

FairInputs == Strings(FairChars, MaxLen)

SignedInputs == SignedWellFormed \cup Examples \cup Strings(SignChars, MaxSignLen)

\* Contents a Parser value may hold when calculate is called: its fields
\* are public and main.rs keeps one instance for the whole session.
PriorStacks ==
    {[numbers |-> <<>>, operations |-> <<>>],
     [numbers |-> <<parse(<<"7">>)>>, operations |-> <<<<"+">>>>],
     [numbers |-> <<Zero, parse(<<"5">>)>>, operations |-> <<<<"(">>, <<"*">>>>]}

\* ----------------------------------------------------------------- state
VARIABLES
    origin_expression,  \* the argument of calculate
    expression,         \* the wrapped, whitespace-free copy
    pos,
    token,
    prevtoken,
    numbers,            \* Parser::numbers
    operations,         \* Parser::operations
    pc,                 \* "idle", "loop", "drain", "check", "done"
    outcome,            \* what the running or last call returned
    calls,              \* outcomes of the calls completed so far
    args                \* their arguments

vars == <<origin_expression, expression, pos, token, prevtoken,
          numbers, operations, pc, outcome, calls, args>>

NoOutcome == [kind |-> "None", err |-> "None", val |-> Zero]

Ok(v) == [kind |-> "Ok", err |-> "None", val |-> v]

Err(e) == [kind |-> "Err", err |-> e, val |-> Zero]

Panic == [kind |-> "Panic", err |-> "None", val |-> Zero]

InitWith(inputs) ==
    /\ origin_expression \in inputs
    /\ expression = <<>>
    /\ pos = 0
    /\ token = EmptyToken
    /\ prevtoken = EmptyToken
    /\ \E prior \in PriorStacks :
          /\ numbers = prior.numbers
          /\ operations = prior.operations
    /\ pc = "idle"
    /\ outcome = NoOutcome
    /\ calls = <<>>
    /\ args = <<>>

Init == InitWith(Inputs)

InitStray == InitWith(StrayInputs)

InitSigned == InitWith(SignedInputs)

InitWs == InitWith(WsInputs)

InitFair == InitWith(FairInputs)

\* return / panic out of calculate, leaving the stacks as given
Return(result, nums, ops) ==
    /\ pc' = "done"
    /\ outcome' = result
    /\ calls' = Append(calls, result)
    /\ args' = Append(args, origin_expression)
    /\ numbers' = nums
    /\ operations' = ops

\* calculate, lines 174-187: the entry of a call on this instance with the
\* argument origin
CalculateWith(origin) ==
    /\ pc \in {"idle", "done"}
    /\ outcome.kind # "Panic"
    /\ Len(calls) < MaxCalls
    /\ origin_expression' = origin
    /\ expression' = remove_whitespace(<<"(">> \o origin \o <<")">>)
    /\ prevtoken' = [value |-> <<"X">>, token_type |-> "Operation"]
    /\ token' = EmptyToken
    /\ pos' = 0
    /\ numbers' = clear(numbers)
    /\ operations' = clear(operations)
    /\ outcome' = NoOutcome
    /\ pc' = "loop"
    /\ UNCHANGED <<calls, args>>

\* a call with the argument of the call before (or the first one)
Calculate ==
    /\ pc \in {"idle", "done"}
    /\ CalculateWith(origin_expression)

\* the lines main.rs reads differ from call to call: a later call whose
\* argument is the earlier one with one whitespace inserted or deleted
WhitespaceEdits(str) ==
    {SubSeq(str, 1, i) \o <<" ">> \o SubSeq(str, i + 1, Len(str)) : i \in 0..Len(str)}
    \cup {SubSeq(str, 1, i - 1) \o SubSeq(str, i + 1, Len(str)) :
             i \in {k \in 1..Len(str) : is_whitespace(str[k])}}

CalculateVariant ==
    /\ pc = "done"
    /\ \E origin \in WhitespaceEdits(origin_expression) : CalculateWith(origin)

\* the unary rule looking for ')' instead of '(' before the sign
is_unary_close(tok, prev) ==
    /\ tok.token_type = "Operation"
    /\ tok.value = <<"+">> \/ tok.value = <<"-">>
    /\ prev.token_type = "Operation"
    /\ prev.value = <<")">>

\* the unary rule without the test of the preceding token
is_unary_any(tok, prev) ==
    /\ tok.token_type = "Operation"
    /\ tok.value = <<"+">> \/ tok.value = <<"-">>

is_unary(tok, prev) ==
    /\ tok.token_type = "Operation"
    /\ tok.value = <<"+">> \/ tok.value = <<"-">>
    /\ prev.token_type = "Operation"
    /\ prev.value = <<"(">>

\* one iteration of the main loop, lines 189-243, up to the drain loop
Iterate ==
    /\ pc = "loop"
    /\ LET r == get_token(expression, pos)
           tok == r.token
           nums1 == IF is_unary(tok, prevtoken) THEN Append(numbers, Zero) ELSE numbers
       IN
       IF r.panic
       THEN /\ Return(Panic, numbers, operations)
            /\ UNCHANGED <<pos, token, prevtoken>>
       ELSE IF tok.token_type = "Number"
       THEN IF ~parse_ok(tok.value)
            THEN /\ Return(Panic, nums1, operations)
                 /\ pos' = r.pos
                 /\ token' = tok
                 /\ UNCHANGED prevtoken
            ELSE /\ numbers' = Append(nums1, parse(tok.value))
                 /\ pos' = r.pos
                 /\ token' = tok
                 /\ prevtoken' = tok
                 /\ UNCHANGED <<operations, pc, outcome, calls, args>>
       ELSE IF tok.token_type = "Operation"
       THEN IF tok.value = <<")">>
            THEN /\ pc' = "drain"
                 /\ numbers' = nums1
                 /\ pos' = r.pos
                 /\ token' = tok
                 /\ UNCHANGED <<operations, prevtoken, outcome, calls, args>>
            ELSE IF can_pop_operation(operations, tok.value)
            THEN LET res == pop_operation(nums1, operations) IN
                 IF res.ok
                 THEN /\ numbers' = res.numbers
                      /\ operations' = Append(res.operations, tok.value)
                      /\ pos' = r.pos
                      /\ token' = tok
                      /\ prevtoken' = tok
                      /\ UNCHANGED <<pc, outcome, calls, args>>
                 ELSE /\ Return(Err(res.err), res.numbers, res.operations)
                      /\ pos' = r.pos
                      /\ token' = tok
                      /\ UNCHANGED prevtoken
            ELSE /\ numbers' = nums1
                 /\ operations' = Append(operations, tok.value)
                 /\ pos' = r.pos
                 /\ token' = tok
                 /\ prevtoken' = tok
                 /\ UNCHANGED <<pc, outcome, calls, args>>
       ELSE /\ pc' = "check"
            /\ pos' = r.pos
            /\ token' = tok
            /\ prevtoken' = tok
            /\ UNCHANGED <<numbers, operations, outcome, calls, args>>
    /\ UNCHANGED <<origin_expression, expression>>

\* one test of the while loop of lines 213-222 and what follows it
Drain ==
    /\ pc = "drain"
    /\ IF operations # <<>> /\ top(operations) # <<"(">>
       THEN LET res == pop_operation(numbers, operations) IN
            IF res.ok
            THEN /\ numbers' = res.numbers
                 /\ operations' = res.operations
                 /\ UNCHANGED <<pc, outcome, calls, args, prevtoken>>
            ELSE /\ Return(Err(res.err), res.numbers, res.operations)
                 /\ UNCHANGED prevtoken
       ELSE /\ operations' = pop(operations)
            /\ prevtoken' = token
            /\ pc' = "loop"
            /\ UNCHANGED <<numbers, outcome, calls, args>>
    /\ UNCHANGED <<origin_expression, expression, pos, token>>

\* the termination check, lines 245-253
Finish ==
    /\ pc = "check"
    /\ IF Len(numbers) > 1 \/ Len(operations) > 0
       THEN Return(Err("BadExpression"), numbers, operations)
       ELSE IF numbers # <<>>
       THEN Return(Ok(top(numbers)), numbers, operations)
       ELSE Return(Err("BadExpression"), numbers, operations)
    /\ UNCHANGED <<origin_expression, expression, pos, token, prevtoken>>

Next == Calculate \/ Iterate \/ Drain \/ Finish

Spec == Init /\ [][Next]_vars

SpecStray == InitStray /\ [][Next]_vars

SpecSigned == InitSigned /\ [][Next]_vars

NextWs == Calculate \/ CalculateVariant \/ Iterate \/ Drain \/ Finish

SpecWs == InitWs /\ [][NextWs]_vars

\* calculate is synchronous straight-line code: a call that has started
\* keeps taking its steps
SpecFair == InitFair /\ [][Next]_vars /\ WF_vars(Iterate \/ Drain \/ Finish)

TypeOK ==
    /\ pc \in {"idle", "loop", "drain", "check", "done"}
    /\ Len(calls) <= MaxCalls
    /\ outcome.kind \in {"None", "Ok", "Err", "Panic"}

\* ------------------------------------------------------- reference values
\* nesting depth of parentheses after the first i characters
RECURSIVE Depth(_, _)
Depth(str, i) ==
    IF i = 0 THEN 0
    ELSE Depth(str, i - 1) +
         (IF str[i] = "(" THEN 1 ELSE IF str[i] = ")" THEN -1 ELSE 0)

TopLevel(str, symbols) ==
    {i \in 1..Len(str) : str[i] \in symbols /\ Depth(str, i - 1) = 0}

Last(set) == CHOOSE i \in set : \A j \in set : j <= i

Arith(o, x, y) ==
    IF o = "+" THEN f64_add(x, y)
    ELSE IF o = "-" THEN f64_sub(x, y)
    ELSE IF o = "*" THEN f64_mul(x, y)
    ELSE f64_div(x, y)

\* The value of a well-formed expression by the usual rules: split at the
\* last + or - outside parentheses, else at the last * or /, else strip
\* the enclosing parentheses, else read the literal.
RECURSIVE Standard(_)
Standard(str) ==
    LET additive == TopLevel(str, {"+", "-"})
        multiplicative == TopLevel(str, {"*", "/"})
        Split(i) == Arith(str[i], Standard(SubSeq(str, 1, i - 1)),
                                  Standard(SubSeq(str, i + 1, Len(str))))
    IN IF additive # {} THEN Split(Last(additive))
       ELSE IF multiplicative # {} THEN Split(Last(multiplicative))
       ELSE IF str[1] = "(" THEN Standard(SubSeq(str, 2, Len(str) - 1))
       ELSE parse(str)

Unbalanced(str) ==
    \/ Depth(str, Len(str)) # 0
    \/ \E i \in 1..Len(str) : Depth(str, i) < 0

Returned == pc = "done"

\* ------------------------------------------------------------------ claims
\* C1: for every well-formed expression (numbers, + - * /, balanced
\* parentheses) calculate returns Ok with the value of standard arithmetic:
\* * and / bind tighter than + and -, equal precedence left to right.
C1_StandardArithmetic ==
    (Returned /\ origin_expression \in WellFormed)
        => outcome = Ok(Standard(origin_expression))

\* C2: every call of calculate ends by returning Ok or Err, never by a
\* panic, and a numeric literal that cannot be parsed gives
\* Err(BadExpression).
C2_NeverPanics ==
    Returned =>
        /\ outcome.kind \in {"Ok", "Err"}
        /\ (token.token_type = "Number" /\ ~parse_ok(token.value))
               => outcome = Err("BadExpression")

\* C3: an expression whose parentheses are not balanced makes calculate
\* return Err(BadExpression), never Ok.
C3_UnbalancedRejected ==
    (Returned /\ Unbalanced(origin_expression))
        => outcome = Err("BadExpression")

\* the expressions of claim C5: digits, whitespace, digits
TwoLiterals(str) ==
    \E i \in 1..Len(str) : \E j \in (i + 2)..Len(str) :
        /\ \A k \in 1..i : is_digit(str[k])
        /\ \A k \in (i + 1)..(j - 1) : is_whitespace(str[k])
        /\ \A k \in j..Len(str) : is_digit(str[k])

RECURSIVE Decimal(_)
Decimal(digits) ==
    IF digits = <<>> THEN 0
    ELSE 10 * Decimal(SubSeq(digits, 1, Len(digits) - 1)) + to_digit(digits[Len(digits)])

Concatenated(str) == F64(1, Decimal(SelectSeq(str, is_digit)), 1)

\* C4 as stated: a well-formed expression followed by a trailing binary
\* operator (such as 2+) makes calculate return Err(BadExpression).
C4_TrailingOperatorBadExpression ==
    (Returned /\ origin_expression \in TrailingOperator)
        => outcome = Err("BadExpression")

\* C4 as amended: a well-formed expression followed by a trailing binary
\* operator makes calculate return Err(OperationBalance).
C4_TrailingOperatorBalance ==
    (Returned /\ origin_expression \in TrailingOperator)
        => outcome = Err("OperationBalance")

C4_Witness ==
    /\ Returned
    /\ origin_expression = <<"2", "+">>
    /\ outcome = Err("OperationBalance")

\* C5 as stated: two number literals separated only by whitespace (such
\* as 2 2) make calculate return Err(BadExpression).
C5_TwoLiteralsBadExpression ==
    (Returned /\ TwoLiterals(origin_expression))
        => outcome = Err("BadExpression")

\* C5 as amended: two digit-only literals separated only by whitespace are
\* read as the one literal made of their digits, and calculate returns Ok
\* with its value (2 2 gives 22).
C5_TwoLiteralsConcatenated ==
    (Returned /\ TwoLiterals(origin_expression))
        => outcome = Ok(Concatenated(origin_expression))

C5_Witness ==
    /\ Returned
    /\ origin_expression = <<"2", " ", "3">>
    /\ outcome = Ok(F64(1, 23, 1))

\* C6: an expression holding an operator character outside ( ) + - * /
\* (such as $) is rejected: calculate returns Err(InvalidOperation) and
\* never Ok.
C6_StraySymbolRejected ==
    (Returned /\ \E i \in 1..Len(origin_expression) : origin_expression[i] = "$")
        => outcome = Err("InvalidOperation")

\* C7 as stated: calling calculate twice with the same valid expression on
\* one Parser gives the same result both times, and after each call both
\* numbers and operations are empty.
C7_RepeatLeavesStacksEmpty ==
    (Returned /\ origin_expression \in WellFormed)
        => /\ outcome.kind = "Ok"
           /\ \A i \in 1..Len(calls) : calls[i] = outcome
           /\ numbers = <<>>
           /\ operations = <<>>

\* C7 as amended: calling calculate twice with the same valid expression on
\* one Parser gives the same result both times, and after each call
\* operations is empty and numbers holds exactly one value, the result.
C7_RepeatLeavesResult ==
    (Returned /\ origin_expression \in WellFormed)
        => /\ outcome.kind = "Ok"
           /\ \A i \in 1..Len(calls) : calls[i] = outcome
           /\ numbers = <<outcome.val>>
           /\ operations = <<>>

C7_Witness ==
    /\ Returned
    /\ Len(calls) = 2
    /\ origin_expression = <<"2", "+", "3">>
    /\ calls[1] = Ok(F64(1, 5, 1))
    /\ calls[2] = Ok(F64(1, 5, 1))
    /\ numbers = <<F64(1, 5, 1)>>
    /\ operations = <<>>

\* C8: the outcome of calculate depends only on the expression: a call on
\* a Parser with arbitrary prior contents and a call on the contents left
\* behind by an earlier call (also one that failed part-way) give the same
\* outcome for the same expression.
C8_OutcomeFromExpressionOnly ==
    \A i \in 1..Len(calls) : \A j \in 1..Len(calls) : calls[i] = calls[j]

C8_Witness ==
    /\ Returned
    /\ Len(calls) = 2
    /\ origin_expression = <<"2", "+">>
    /\ calls[1] = Err("OperationBalance")
    /\ calls[2] = Err("OperationBalance")
    /\ numbers = <<>>
    /\ operations = <<<<"(">>, <<"+">>>>

\* the expressions of claim C9: n1 op1 n2 ... nk, all operators of one
\* priority
IsChain(str) ==
    /\ Len(str) % 2 = 1
    /\ \A i \in 1..Len(str) : i % 2 = 1 => is_digit(str[i])
    /\ \/ \A i \in 1..Len(str) : i % 2 = 0 => str[i] \in {"+", "-"}
       \/ \A i \in 1..Len(str) : i % 2 = 0 => str[i] \in {"*", "/"}

RECURSIVE LeftFold(_)
LeftFold(str) ==
    IF Len(str) = 1 THEN parse(str)
    ELSE Arith(str[Len(str) - 1],
               LeftFold(SubSeq(str, 1, Len(str) - 2)),
               parse(<<str[Len(str)]>>))

\* C9: a chain n1 op1 n2 ... nk whose operators all have the same priority
\* evaluates to the left fold ((n1 op1 n2) op2 n3) ...
C9_EqualPriorityLeftFold ==
    (Returned /\ IsChain(origin_expression))
        => outcome = Ok(LeftFold(origin_expression))

C9_Witness ==
    /\ Returned
    /\ origin_expression = <<"3", "-", "2", "-", "2">>
    /\ outcome = Ok(F64(-1, 1, 1))

Additive == {"+", "-"}

Multiplicative == {"*", "/"}

Mixed(o1, o2) ==
    \/ o1 \in Additive /\ o2 \in Multiplicative
    \/ o1 \in Multiplicative /\ o2 \in Additive

Num(c) == parse(<<c>>)

\* C10: in a op1 b op2 c with one operator of each priority the * or / is
\* applied first wherever it stands, and parentheses override this.
C10_PrecedenceAndParentheses ==
    Returned =>
        \A a, b, c \in Digits : \A o1, o2 \in BinOps :
            Mixed(o1, o2) =>
                /\ origin_expression = <<a, o1, b, o2, c>> =>
                       outcome = Ok(IF o2 \in Multiplicative
                                    THEN Arith(o1, Num(a), Arith(o2, Num(b), Num(c)))
                                    ELSE Arith(o2, Arith(o1, Num(a), Num(b)), Num(c)))
                /\ origin_expression = <<"(", a, o1, b, ")", o2, c>> =>
                       outcome = Ok(Arith(o2, Arith(o1, Num(a), Num(b)), Num(c)))
                /\ origin_expression = <<a, o1, "(", b, o2, c, ")">> =>
                       outcome = Ok(Arith(o1, Num(a), Arith(o2, Num(b), Num(c))))

C10_Witness ==
    /\ Returned
    /\ origin_expression = <<"(", "2", "+", "3", ")", "*", "3">>
    /\ outcome = Ok(F64(1, 15, 1))

IsSign(tok) ==
    /\ tok.token_type = "Operation"
    /\ tok.value = <<"+">> \/ tok.value = <<"-">>

\* a step of the main loop that fetched the token now in token'
Fetched == pc = "loop" /\ pos' # pos

\* C11: a + or - whose preceding token is '(' (also the wrapping one) gets
\* exactly one 0 operand pushed before it and is then pushed as a binary
\* operator; a sign in any other position pushes no operand; so a signed
\* digit gives 0 + d or 0 - d, -5 gives -5 and 4+(-1)*(2+2) gives 0.
C11_UnarySign ==
    /\ [][(Fetched /\ IsSign(token')) =>
            IF prevtoken = [value |-> <<"(">>, token_type |-> "Operation"]
            THEN /\ numbers' = Append(numbers, Zero)
                 /\ operations' = Append(operations, token'.value)
                 /\ pc' = "loop"
            ELSE /\ Len(numbers') <= Len(numbers)
                 /\ Len(numbers') = Len(numbers) => numbers' = numbers]_vars
    /\ [](Returned =>
            /\ \A g \in {"+", "-"} : \A c \in Digits :
                  origin_expression \in {<<g, c>>, <<"(", g, c, ")">>}
                      => outcome = Ok(Arith(g, Zero, Num(c)))
            /\ origin_expression = <<"-", "5">> => outcome = Ok(F64(-1, 5, 1))
            /\ origin_expression =
                  <<"4", "+", "(", "-", "1", ")", "*", "(", "2", "+", "2", ")">>
                      => outcome = Ok(Zero))

C11_Witness ==
    /\ Returned
    /\ origin_expression = <<"4", "+", "(", "-", "1", ")", "*", "(", "2", "+", "2", ")">>
    /\ outcome = Ok(Zero)

NotWhitespace(c) == c # " "

\* each string is the other with whitespace inserted or deleted
WhitespaceVariants(e1, e2) ==
    SelectSeq(e1, NotWhitespace) = SelectSeq(e2, NotWhitespace)

\* C12: an expression and the same expression with whitespace inserted or
\* deleted anywhere give the identical outcome.
C12_WhitespaceInsensitive ==
    \A i \in 1..Len(calls) : \A j \in 1..Len(calls) :
        WhitespaceVariants(args[i], args[j]) => calls[i] = calls[j]

C12_Witness ==
    /\ Returned
    /\ args = << <<"2", "+", "3">>, <<"2", " ", "+", "3">> >>
    /\ calls = <<Ok(F64(1, 5, 1)), Ok(F64(1, 5, 1))>>

Evaluating == pc \in {"loop", "drain"}

OpenParen == <<"(">>

\* the unconditional pop of line 222
UnconditionalPop == pc = "drain" /\ pc' = "loop"

\* C13: during an evaluation an open parenthesis on the operator stack is
\* never removed or replaced by a pop-and-reduce: it leaves the stack only
\* as the top of the stack, in the unconditional pop made for a ')' token,
\* which takes the most recently pushed '(' still on the stack.
C13_ParenPoppedOnlyByClose ==
    [][Evaluating =>
          \A i \in 1..Len(operations) :
              operations[i] = OpenParen =>
                  \/ i <= Len(operations') /\ operations'[i] = OpenParen
                  \/ /\ UnconditionalPop
                     /\ i = Len(operations)
                     /\ operations' = SubSeq(operations, 1, i - 1)]_vars

C13_Witness ==
    /\ pc = "loop"
    /\ origin_expression = <<"(", "2", "-", "3", ")">>
    /\ prevtoken.value = <<")">>
    /\ operations = <<OpenParen>>
    /\ numbers = <<F64(-1, 1, 1)>>

\* a step in which pop_operation returned Ok: an iteration of the drain
\* loop, or an operator token that took the place of the top operator
Reduced ==
    \/ pc = "drain" /\ pc' = "drain"
    \/ /\ Fetched
       /\ pc' = "loop"
       /\ token'.token_type = "Operation"
       /\ Len(operations') = Len(operations)

\* C14: every pop-and-reduce that returns Ok takes two operands and one
\* operator and pushes one result, b <op> a with b pushed earlier: both
\* stacks shrink by exactly one, whatever symbol is on top.
C14_PopAndReduce ==
    [][Reduced =>
          /\ Len(numbers') = Len(numbers) - 1
          /\ numbers' = Append(SubSeq(numbers, 1, Len(numbers) - 2),
                               Arith(top(operations)[1],
                                     numbers[Len(numbers) - 1],
                                     numbers[Len(numbers)]))
          /\ SubSeq(operations', 1, Len(operations) - 1)
                = SubSeq(operations, 1, Len(operations) - 1)]_vars

\* a pop-and-reduce is about to be attempted by the next step
DrainAttempt ==
    pc = "drain" /\ operations # <<>> /\ top(operations) # OpenParen

TokenAttempt ==
    /\ Fetched
    /\ token'.token_type = "Operation"
    /\ token'.value # <<")">>
    /\ can_pop_operation(operations, token'.value)

\* C15: a pop-and-reduce attempted with fewer than two operands makes
\* calculate return Err(OperationBalance) at once: no further token is
\* fetched and the operator is neither popped nor pushed.
C15_UnderflowReturnsBalance ==
    [][((DrainAttempt \/ TokenAttempt) /\ Len(numbers) < 2) =>
          /\ pc' = "done"
          /\ outcome' = Err("OperationBalance")
          /\ operations' = operations
          /\ DrainAttempt => pos' = pos]_vars

C15_Witness ==
    /\ Returned
    /\ origin_expression = <<"2", "*", "-", "2">>
    /\ outcome = Err("OperationBalance")
    /\ pos = 4
    /\ operations = <<OpenParen, <<"*">>>>

\* C16 as stated: the End token is eventually processed: a call returns
\* its Ok or Err only after the End token.
C16_EndTokenProcessed ==
    (Returned /\ outcome.kind \in {"Ok", "Err"}) => token.token_type = "Empty"

\* C16 as amended: calculate terminates on every finite input: get_token
\* moves the position forward by at least one for a Number or Operation
\* token and returns End, without moving, exactly when the position equals
\* the length of the expression; a step of the drain loop removes one
\* operator or returns an error; the position never exceeds the number of
\* characters, so the main loop runs at most that many iterations plus
\* one; and every call ends, with the End token processed or earlier by an
\* error return or a panic.
C16_Terminates ==
    /\ [][(pc = "loop" /\ outcome'.kind # "Panic") =>
            /\ token'.token_type \in {"Number", "Operation"} => pos' >= pos + 1
            /\ token'.token_type = "Empty" <=> pos = len(expression)
            /\ token'.token_type = "Empty" => pos' = pos /\ pc' = "check"]_vars
    /\ [][pc = "drain" =>
            \/ pc' = "done" /\ outcome'.kind = "Err"
            \/ Len(operations') = Len(operations) - 1
            \/ operations = <<>> /\ operations' = <<>> /\ pc' = "loop"]_vars
    /\ [](Evaluating => pos <= Len(expression))
    /\ (pc = "loop") ~> (pc = "done")

C16_Witness ==
    /\ Returned
    /\ origin_expression = <<"2", "+", "2">>
    /\ token.token_type = "Empty"
    /\ pos = 5
    /\ outcome = Ok(F64(1, 4, 1))

\* C17 as stated: when the main loop exits with an empty operator stack the
\* operand stack is not empty, for every input.
C17_OperandLeftAtExit ==
    (pc = "check" /\ operations = <<>>) => numbers # <<>>

\* C17 as amended: the main loop can exit with both stacks empty (it does
\* for the empty and the whitespace-only input); calculate then returns
\* Err(BadExpression) through the final branch.  For every well-formed
\* expression the loop exits with an empty operator stack and an operand
\* on the operand stack.
C17_EmptyExitIsBadExpression ==
    /\ (pc = "check" /\ origin_expression \in WellFormed)
          => operations = <<>> /\ numbers # <<>>
    /\ (pc = "check" /\ origin_expression \in {<<>>, <<" ">>, <<" ", " ">>})
          => operations = <<>> /\ numbers = <<>>
    /\ (Returned /\ token.token_type = "Empty" /\ operations = <<>> /\ numbers = <<>>)
          => outcome = Err("BadExpression")

C17_Witness ==
    /\ Returned
    /\ origin_expression = <<" ">>
    /\ token.token_type = "Empty"
    /\ operations = <<>>
    /\ numbers = <<>>
    /\ outcome = Err("BadExpression")

\* C18: calculate never returns Err(PopFailure) nor Err(InvalidOperation):
\* the only error kinds returned are BadExpression and OperationBalance.
C18_OnlyTwoErrorKinds ==
    /\ outcome.kind = "Err" => outcome.err \in {"BadExpression", "OperationBalance"}
    /\ \A i \in 1..Len(calls) :
          calls[i].kind = "Err" => calls[i].err \in {"BadExpression", "OperationBalance"}

C18_Witness ==
    /\ Returned
    /\ origin_expression = <<"2", "$", "2">>
    /\ outcome = Err("BadExpression")
    /\ operations = <<>>
    /\ numbers = <<>>

\* C19: for every expression of the grammar E := [sign] T (binop T)*,
\* T := number | '(' E ')', no pop-and-reduce underflows and calculate
\* returns Ok, leaving exactly one operand and no operator.
C19_GrammarAccepted ==
    (origin_expression \in SignedWellFormed \cup Examples) =>
        /\ outcome.kind \in {"None", "Ok"}
        /\ Returned => Len(numbers) = 1 /\ operations = <<>> /\ outcome = Ok(numbers[1])

C19_Witness ==
    /\ Returned
    /\ origin_expression = <<"-", "(", "-", "2", ")">>
    /\ outcome = Ok(F64(1, 2, 1))
    /\ numbers = <<F64(1, 2, 1)>>
    /\ operations = <<>>

\* the operators above the innermost open parenthesis
RECURSIVE AboveParen(_)
AboveParen(ops) ==
    IF ops = <<>> \/ top(ops) = OpenParen THEN <<>>
    ELSE Append(AboveParen(SubSeq(ops, 1, Len(ops) - 1)), top(ops))

\* C20: while a well-formed expression is evaluated at most two operators
\* lie above the innermost '(' of the operator stack, and when there are
\* two the lower is + or - and the upper is * or /.
C20_AtMostTwoAboveParen ==
    (pc \in {"loop", "drain", "check"} /\ origin_expression \in WellFormed) =>
        LET above == AboveParen(operations) IN
        /\ Len(above) <= 2
        /\ Len(above) = 2 =>
              /\ above[1] \in {<<"+">>, <<"-">>}
              /\ above[2] \in {<<"*">>, <<"/">>}

====
